---- MODULE Spec2Model ----
(***************************************************************************)
(* A model of sdks/python/google/cloud/dataflow/pipeline.py: the Pipeline  *)
(* object (node registry, construction stack, used-label set), the         *)
(* AppliedPTransform tree built by Pipeline.apply, and the depth-first     *)
(* traversal AppliedPTransform.visit driving a PipelineVisitor.            *)
(***************************************************************************)
EXTENDS Integers, Sequences, FiniteSets, TLC

(***************************************************************************)
(* Bounds of the model.                                                    *)
(***************************************************************************)
\* AppliedPTransform objects besides the root sentinel
MaxApplied == 3
\* PValue objects constructed for the pipeline
MaxPValues == 3
\* leaves of a flattened input structure
MaxInputs == 2
\* leaves of a result structure
MaxResults == 2
\* AppliedPTransform objects left on the stack by failed Pipeline.apply calls
MaxStale == 1
\* full labels recorded by Pipeline.apply calls that created no node
MaxOrphans == 1
\* PBegin objects among the PValue objects
MaxPBegin == 1
\* input and side-input leaves of all the transforms applied
MaxLeaves == 2
\* outputs recorded by all the transforms applied
MaxOutputs == 3
\* PValue objects that no transform consumes or returns
MaxUnused == 1
\* DoOutputsTuple objects constructed for the pipeline
MaxBundles == 1
\* builder threads that call Pipeline.apply on one pipeline
MaxThreads == 2
\* AppliedPTransform objects, the root included, before a primitive whose
\* apply runs to its end without a nested apply is applied
MaxNested == 4
\* depth of nested AppliedPTransform.visit calls the interpreter allows
RecursionLimit == 8

(***************************************************************************)
(* Values of the model.                                                    *)
(***************************************************************************)
\* Python's None, as a reference to no AppliedPTransform
None == -1

\* the root sentinel, transforms_stack[0]
Root == 0

\* a PValue constructed for another pipeline: never in this one's _nodes
ForeignPValue == 0

\* an input structure with a leaf that is not a PValue
BadPValueish == <<-1>>

\* own labels of the transforms applied
Labels == {<<"A">>, <<"B">>}

PValueKinds == {"PCollection", "PBegin"}

NoException == "none"

\* the operation that just ran was not a Pipeline.visit
NoVisit == -2

OptionChoices ==
  {[set |-> FALSE, pipeline_type_check |-> FALSE, type_check_strictness |-> "DEFAULT_TO_ANY"],
   [set |-> TRUE, pipeline_type_check |-> TRUE, type_check_strictness |-> "ALL_REQUIRED"]}

VARIABLES
  options,           \* Pipeline.options (set = FALSE: options is None)
  applied,           \* the AppliedPTransform objects, by identity
  pvalues,           \* the PValue objects of this pipeline, by identity
  nodes,             \* Pipeline._nodes
  transforms_stack,  \* Pipeline.transforms_stack
  applied_labels,    \* Pipeline.applied_labels
  calls,             \* the open Pipeline.apply calls, innermost last
  exc,               \* the exception the operation that just ran raised
  target,            \* the node argument of the Pipeline.visit that just ran
  callbacks,         \* the PipelineVisitor callbacks of the operation that just ran
  threads            \* the builder threads: position and locals in Pipeline.apply

vars == <<options, applied, pvalues, nodes, transforms_stack, applied_labels,
          calls, exc, target, callbacks, threads>>

build == <<applied, pvalues, nodes, transforms_stack, applied_labels>>

(***************************************************************************)
(* Helpers on sequences.                                                   *)
(***************************************************************************)
Last(s) == s[Len(s)]

Front(s) == SubSeq(s, 1, Len(s) - 1)

Range(s) == {s[i] : i \in DOMAIN s}

\* the sequences over S of length at most n, without repetition
SeqsUpTo(S, n) ==
  UNION {{s \in [1..k -> S] : \A i, j \in 1..k : i # j => s[i] # s[j]} : k \in 0..n}

(***************************************************************************)
(* AppliedPTransform.                                                      *)
(***************************************************************************)
\* AppliedPTransform.__init__
AppliedPTransform(parent, transform, full_label, inputs, side_inputs) ==
  [parent |-> parent, transform |-> transform, full_label |-> full_label,
   inputs |-> inputs, side_inputs |-> side_inputs,
   outputs |-> <<>>, parts |-> <<>>]

\* AppliedPTransform.add_output, on the heap h of AppliedPTransform objects
add_output(h, n, output) ==
  [h EXCEPT ![n].outputs = Append(@, output)]

\* add_part putting the part first: C6 tells it from add_part
add_part_first(h, n, part) ==
  [h EXCEPT ![n].parts = <<part>> \o @]

\* AppliedPTransform.add_part
add_part(h, n, part) ==
  [h EXCEPT ![n].parts = Append(@, part)]

\* a classification by the parts alone: C21 tells it from is_composite
is_composite_parts_only(n) == applied[n].parts # <<>>

\* AppliedPTransform.is_composite
is_composite(n) ==
  \/ applied[n].parts # <<>>
  \/ \A i \in DOMAIN applied[n].outputs :
        pvalues[applied[n].outputs[i]].producer # n

(***************************************************************************)
(* Pipeline.                                                               *)
(***************************************************************************)
\* transforms.format_full_label: '/'.join of the enclosing full label and
\* the own label, without a leading separator
format_full_label(applied_transform, label) ==
  LET joined == applied_transform.full_label \o <<"/">> \o label
  IN  IF Head(joined) = "/" THEN Tail(joined) ELSE joined

\* Pipeline._current_transform
current_transform == transforms_stack[Len(transforms_stack)]

\* Pipeline._root_transform
root_transform == transforms_stack[1]

\* Pipeline._add_pvalue
add_pvalue(reg, pval) ==
  IF pval \in Range(reg) THEN reg ELSE Append(reg, pval)

\* the builder threads
Threads == 1..MaxThreads

\* a thread outside the statements of Pipeline.apply: in no call, or in the
\* runner's apply hook of the innermost of its open calls
Ready(open, made) ==
  [pc |-> "ready", label |-> <<>>, full_label |-> <<>>, child |-> None,
   open |-> open, made |-> made]

Init ==
  /\ threads = [t \in Threads |-> Ready(<<>>, {})]
  /\ options \in OptionChoices
  /\ applied = (Root :> AppliedPTransform(None, None, <<>>, <<>>, <<>>))
  /\ pvalues = <<>>
  /\ nodes = <<>>
  /\ transforms_stack = <<Root>>
  /\ applied_labels = {}
  /\ calls = <<>>
  /\ exc = NoException
  /\ target = NoVisit
  /\ callbacks = <<>>

\* an operation other than Pipeline.visit invokes no visitor callback
NoCallbacks ==
  /\ target' = NoVisit
  /\ callbacks' = <<>>

\* the operation returns normally
Return == exc' = NoException

\* the operation raises e, which leaves the enclosing Pipeline.apply calls
\* (each is at line 209) down to the one whose transform handles it, or
\* all of them; open is calls without the call that raises
Raise(e, open) ==
  /\ exc' = e
  /\ \E depth \in 0..Len(open) : calls' = SubSeq(open, 1, depth)

\* the DoOutputsTuple objects: the results of multi-output transforms
Bundles == {b \in DOMAIN pvalues : pvalues[b].kind = "DoOutputsTuple"}

\* the tagged values of the DoOutputsTuple objects
Tagged == UNION {Range(pvalues[b].tags) : b \in Bundles}

\* the values made by calling PValue.__init__ directly
Constructed == DOMAIN pvalues \ (Bundles \cup Tagged)

\* PValue.__init__(pipeline): a new value, registered, with no producer
NewPValue(kind) ==
  /\ Cardinality(Constructed) < MaxPValues
  /\ kind = "PBegin" =>
       Cardinality({v \in DOMAIN pvalues : pvalues[v].kind = "PBegin"}) < MaxPBegin
  /\ LET pval == Len(pvalues) + 1
     IN  /\ pvalues' = Append(pvalues, [kind |-> kind, producer |-> None])
         /\ nodes' = add_pvalue(nodes, pval)
  /\ Return
  /\ NoCallbacks
  /\ UNCHANGED <<options, threads, applied, transforms_stack, applied_labels, calls>>

\* DoOutputsTuple.__init__: a bundle of two tagged values, the main output
\* and one tag, neither made yet; the bundle is no PValue and is not
\* registered
NewDoOutputsTuple ==
  /\ Cardinality(Bundles) < MaxBundles
  /\ LET b == Len(pvalues) + 1
     IN  pvalues' = pvalues \o
           <<[kind |-> "DoOutputsTuple", producer |-> None,
              tags |-> <<b + 1, b + 2>>, made |-> FALSE],
             [kind |-> "PCollection", producer |-> None],
             [kind |-> "PCollection", producer |-> None]>>
  /\ Return
  /\ NoCallbacks
  /\ UNCHANGED <<options, threads, applied, nodes, transforms_stack, applied_labels, calls>>

\* the values after the tagged values of the bundles in bs were made: a
\* tagged value is a PCollection made on the first access to its tag, with
\* the producer the bundle has at that time
make_tags(bs) ==
  LET fresh == {b \in bs \cap Bundles : ~pvalues[b].made}
  IN  [v \in DOMAIN pvalues |->
         IF v \in fresh THEN [pvalues[v] EXCEPT !.made = TRUE]
         ELSE IF \E b \in fresh : v \in Range(pvalues[b].tags)
         THEN [pvalues[v] EXCEPT
                 !.producer = pvalues[CHOOSE b \in fresh :
                                        v \in Range(pvalues[b].tags)].producer]
         ELSE pvalues[v]]

\* the registry after the tagged values of the bundles in bs were made
RECURSIVE register_tags(_, _)
register_tags(reg, bs) ==
  LET fresh == {b \in bs \cap Bundles : ~pvalues[b].made}
  IN  IF fresh = {} THEN reg
      ELSE LET b == CHOOSE x \in fresh : \A y \in fresh : x <= y
           IN  register_tags(
                 add_pvalue(add_pvalue(reg, pvalues[b].tags[1]), pvalues[b].tags[2]),
                 bs \ {b})

\* iterating a DoOutputsTuple, or reading its tags: the tagged values are made
GetTags(b) ==
  /\ b \in Bundles
  /\ ~pvalues[b].made
  /\ pvalues' = make_tags({b})
  /\ nodes' = register_tags(nodes, {b})
  /\ Return
  /\ NoCallbacks
  /\ UNCHANGED <<options, threads, applied, transforms_stack, applied_labels, calls>>

\* the full label Pipeline.apply computes for a transform labelled label
full_label_of(label) == format_full_label(applied[current_transform], label)

\* a duplicate-label test that never fires: C1 tells it from already_applied
already_applied_never(full_label) == FALSE

\* the duplicate-label test of Pipeline.apply
already_applied(full_label) == full_label \in applied_labels

\* the full labels no AppliedPTransform carries
Orphans == applied_labels \ {applied[n].full_label : n \in DOMAIN applied}

\* the stack entries whose Pipeline.apply call is no longer open
Stale == Len(transforms_stack) - 1 - Len(calls)

\* Pipeline.apply, rejected: the full label is already applied
ApplyDuplicateLabel(label) ==
  /\ already_applied(full_label_of(label))
  /\ Raise("RuntimeError", calls)
  /\ NoCallbacks
  /\ UNCHANGED <<options, threads, build>>

\* an input-extraction failure that leaves no label behind: C20 tells it
\* from ApplyExtractError
ApplyExtractError_unrecorded(label, pvalueish) ==
  /\ ~already_applied(full_label_of(label))
  /\ pvalueish = BadPValueish
  /\ Raise("NotImplementedError", calls)
  /\ NoCallbacks
  /\ UNCHANGED <<options, threads, build>>

\* Pipeline.apply, failing on an input leaf that is not a PValue
ApplyExtractError(label, pvalueish) ==
  /\ ~already_applied(full_label_of(label))
  /\ pvalueish = BadPValueish
  /\ Cardinality(Orphans) < MaxOrphans
  /\ applied_labels' = applied_labels \cup {full_label_of(label)}
  /\ Raise("NotImplementedError", calls)
  /\ NoCallbacks
  /\ UNCHANGED <<options, threads, applied, pvalues, nodes, transforms_stack>>

\* a child that is made no part of its parent: C19 tells it from with_child
with_child_detached(label, inputs, side_inputs) ==
  applied @@ (Cardinality(DOMAIN applied) :>
                AppliedPTransform(current_transform, label, full_label_of(label),
                                  inputs, side_inputs))

\* the heap after Pipeline.apply created the child and made it a part
with_child(label, inputs, side_inputs) ==
  LET child == Cardinality(DOMAIN applied)
      node == AppliedPTransform(current_transform, label, full_label_of(label),
                                inputs, side_inputs)
  IN  add_part(applied @@ (child :> node), current_transform, child)

\* Pipeline.apply not recording the full label: C2 tells it from ApplyEnter
ApplyEnter_unrecorded(label, inputs, side_inputs) ==
  /\ ~already_applied(full_label_of(label))
  /\ Cardinality(DOMAIN applied) <= MaxApplied
  /\ LET child == Cardinality(DOMAIN applied)
     IN  /\ applied' = with_child(label, inputs, side_inputs)
         /\ transforms_stack' = Append(transforms_stack, child)
         /\ calls' = Append(calls, child)
  /\ Return
  /\ NoCallbacks
  /\ UNCHANGED <<options, threads, pvalues, nodes, applied_labels>>

\* Pipeline.apply up to the call of the runner's apply hook
ApplyEnter(label, inputs, side_inputs) ==
  /\ ~already_applied(full_label_of(label))
  /\ Cardinality(DOMAIN applied) <= MaxApplied
  /\ LET child == Cardinality(DOMAIN applied)
     IN  /\ applied_labels' = applied_labels \cup {full_label_of(label)}
         /\ applied' = with_child(label, inputs, side_inputs)
         /\ transforms_stack' = Append(transforms_stack, child)
         /\ calls' = Append(calls, child)
  /\ Return
  /\ NoCallbacks
  /\ UNCHANGED <<options, threads, pvalues, nodes>>

\* Pipeline.apply, failing in transform.type_check_inputs
ApplyTypeCheckInputsError(label, inputs, side_inputs) ==
  /\ ~already_applied(full_label_of(label))
  /\ Cardinality(DOMAIN applied) <= MaxApplied
  /\ Stale < MaxStale
  /\ options.set /\ options.pipeline_type_check
  /\ LET child == Cardinality(DOMAIN applied)
     IN  /\ applied_labels' = applied_labels \cup {full_label_of(label)}
         /\ applied' = with_child(label, inputs, side_inputs)
         /\ transforms_stack' = Append(transforms_stack, child)
  /\ Raise("TypeCheckError", calls)
  /\ NoCallbacks
  /\ UNCHANGED <<options, threads, pvalues, nodes>>

\* lines 214-222 of Pipeline.apply: the producer of each result, set when unset
set_producers(result, child) ==
  [v \in DOMAIN pvalues |->
     IF v \in Range(result) /\ pvalues[v].producer = None
     THEN [pvalues[v] EXCEPT !.producer = child]
     ELSE pvalues[v]]

\* lines 214-222 of Pipeline.apply: each result added to the current transform
RECURSIVE add_outputs(_, _, _)
add_outputs(h, n, result) ==
  IF result = <<>> THEN h
  ELSE add_outputs(add_output(h, n, Head(result)), n, Tail(result))

\* the stack after Pipeline.apply's transforms_stack.pop()
pop_stack == Front(transforms_stack)

\* a pipeline that never asks for output type hints: C13 tells it from
\* missing_output_hint
missing_output_hint_never(declared) == FALSE

\* whether line 247 of Pipeline.apply raises for a transform that
\* declares output type hints or not
missing_output_hint(declared) ==
  /\ options.set
  /\ options.type_check_strictness = "ALL_REQUIRED"
  /\ ~declared

\* Pipeline.apply from the return of the runner's apply hook to its own return
ApplyReturn(result, declared) ==
  /\ calls # <<>>
  /\ ~missing_output_hint(declared)
  /\ pvalues' = set_producers(result, Last(calls))
  /\ applied' = add_outputs(applied, current_transform, result)
  /\ transforms_stack' = pop_stack
  /\ calls' = Front(calls)
  /\ Return
  /\ NoCallbacks
  /\ UNCHANGED <<options, threads, nodes, applied_labels>>

\* Pipeline.apply, failing after the results were recorded: no output type hint
ApplyMissingHintError(result, declared) ==
  /\ calls # <<>>
  /\ Stale < MaxStale
  /\ missing_output_hint(declared)
  /\ pvalues' = set_producers(result, Last(calls))
  /\ applied' = add_outputs(applied, current_transform, result)
  /\ Raise("TypeCheckError", Front(calls))
  /\ NoCallbacks
  /\ UNCHANGED <<options, threads, nodes, transforms_stack, applied_labels>>

\* Pipeline.apply, failing in transform.type_check_outputs
ApplyTypeCheckOutputsError ==
  /\ calls # <<>>
  /\ Stale < MaxStale
  /\ options.set /\ options.pipeline_type_check
  /\ Raise("TypeCheckError", Front(calls))
  /\ NoCallbacks
  /\ UNCHANGED <<options, threads, build>>

\* a hook failure that pops the node of the failing apply: C15 tells it
\* from HookRaise
HookRaise_unwinding ==
  /\ calls # <<>>
  /\ Stale < MaxStale
  /\ transforms_stack' = pop_stack
  /\ Raise("HookError", Front(calls))
  /\ NoCallbacks
  /\ UNCHANGED <<options, threads, applied, pvalues, nodes, applied_labels>>

\* the runner's apply hook raises: line 209 of Pipeline.apply does not return
HookRaise ==
  /\ calls # <<>>
  /\ Stale < MaxStale
  /\ Raise("HookError", Front(calls))
  /\ NoCallbacks
  /\ UNCHANGED <<options, threads, build>>

\* a whole Pipeline.apply of a primitive: the hook makes one PCollection and
\* no nested apply, and nothing fails (lines 180-256 in one step)
ApplyPrimitive(label, inputs) ==
  /\ ~already_applied(full_label_of(label))
  /\ Cardinality(DOMAIN applied) <= MaxNested
  /\ LET child == Cardinality(DOMAIN applied)
         pval == Len(pvalues) + 1
     IN  /\ applied_labels' = applied_labels \cup {full_label_of(label)}
         /\ pvalues' = Append(pvalues, [kind |-> "PCollection", producer |-> child])
         /\ nodes' = add_pvalue(nodes, pval)
         /\ applied' = add_output(with_child(label, inputs, <<>>), child, pval)
  /\ Return
  /\ NoCallbacks
  /\ UNCHANGED <<options, threads, transforms_stack, calls>>

(***************************************************************************)
(* Pipeline.apply called by several threads: the statements of one call,   *)
(* each a step, interleaved with those of the other threads.  The          *)
(* transforms take no input, return no value and do not fail.              *)
(***************************************************************************)
\* the calls that have passed the label test and have no node yet
Pending == {t \in Threads : threads[t].pc \in {"checked", "added"}}

\* lines 180-186 of Pipeline.apply: the label is already applied
ThreadDuplicateLabel(t, label) ==
  /\ threads[t].pc = "ready"
  /\ already_applied(full_label_of(label))
  /\ exc' = "RuntimeError"
  /\ NoCallbacks
  /\ UNCHANGED <<options, threads, build, calls>>

\* lines 180-181 of Pipeline.apply: the full label is computed and is new
ThreadCheck(t, label) ==
  /\ threads[t].pc = "ready"
  /\ ~already_applied(full_label_of(label))
  /\ Cardinality(DOMAIN applied) + Cardinality(Pending) <= MaxApplied
  /\ threads' = [threads EXCEPT ![t].pc = "checked", ![t].label = label,
                                ![t].full_label = full_label_of(label)]
  /\ Return
  /\ NoCallbacks
  /\ UNCHANGED <<options, build, calls>>

\* a call that does not record its full label: C17 tells it from
\* ThreadAddLabel
ThreadAddLabel_skipped(t) ==
  /\ threads[t].pc = "checked"
  /\ threads' = [threads EXCEPT ![t].pc = "added"]
  /\ Return
  /\ NoCallbacks
  /\ UNCHANGED <<options, build, calls>>

\* line 187 of Pipeline.apply
ThreadAddLabel(t) ==
  /\ threads[t].pc = "checked"
  /\ applied_labels' = applied_labels \cup {threads[t].full_label}
  /\ threads' = [threads EXCEPT ![t].pc = "added"]
  /\ Return
  /\ NoCallbacks
  /\ UNCHANGED <<options, applied, pvalues, nodes, transforms_stack, calls>>

\* lines 201-202 of Pipeline.apply: the child, under the context of this
\* moment and with the full label computed at line 180
ThreadCreate(t) ==
  /\ threads[t].pc = "added"
  /\ LET child == Cardinality(DOMAIN applied)
         node == AppliedPTransform(current_transform, threads[t].label,
                                   threads[t].full_label, <<>>, <<>>)
     IN  /\ applied' = applied @@ (child :> node)
         /\ threads' = [threads EXCEPT ![t].pc = "created", ![t].child = child,
                                       ![t].made = @ \cup {child}]
  /\ Return
  /\ NoCallbacks
  /\ UNCHANGED <<options, pvalues, nodes, transforms_stack, applied_labels, calls>>

\* line 203 of Pipeline.apply
ThreadAddPart(t) ==
  /\ threads[t].pc = "created"
  /\ applied' = add_part(applied, current_transform, threads[t].child)
  /\ threads' = [threads EXCEPT ![t].pc = "attached"]
  /\ Return
  /\ NoCallbacks
  /\ UNCHANGED <<options, pvalues, nodes, transforms_stack, applied_labels, calls>>

\* line 204 of Pipeline.apply; the runner's apply hook is called next
ThreadPush(t) ==
  /\ threads[t].pc = "attached"
  /\ transforms_stack' = Append(transforms_stack, threads[t].child)
  /\ threads' = [threads EXCEPT
                   ![t] = Ready(Append(threads[t].open, threads[t].child),
                                threads[t].made)]
  /\ Return
  /\ NoCallbacks
  /\ UNCHANGED <<options, applied, pvalues, nodes, applied_labels, calls>>

\* lines 209-256 of Pipeline.apply: the hook of the innermost open call of
\* the thread has returned
ThreadPop(t) ==
  /\ threads[t].pc = "ready"
  /\ threads[t].open # <<>>
  /\ transforms_stack' = pop_stack
  /\ threads' = [threads EXCEPT ![t].open = Front(@)]
  /\ Return
  /\ NoCallbacks
  /\ UNCHANGED <<options, applied, pvalues, nodes, applied_labels, calls>>

(***************************************************************************)
(* Traversal.  A traversal state st holds the visited set shared by one    *)
(* Pipeline.visit call, the callbacks made so far and the exception that   *)
(* ended it, if any.                                                       *)
(***************************************************************************)
Callback(cb, n, v) == [cb |-> cb, node |-> n, value |-> v]

\* a callback on a transform node carries no value
NoValue == 0

Failed(st) == st.err # NoException

Fail(st, e) == [st EXCEPT !.err = e]

Invoke(st, cb, n, v) == [st EXCEPT !.log = Append(@, Callback(cb, n, v))]

\* lines 365-368 of AppliedPTransform.visit: the values of an output, a
\* DoOutputsTuple being iterated
pvals_of(pval) ==
  IF pvalues[pval].kind = "DoOutputsTuple" THEN pvalues[pval].tags ELSE <<pval>>

\* lines 369-372 of AppliedPTransform.visit: the values not yet visited
RECURSIVE visit_values(_, _, _)
visit_values(n, pvals, st) ==
  IF pvals = <<>> THEN st
  ELSE LET v == Head(pvals)
           s1 == IF v \in st.visited THEN st
                 ELSE Invoke([st EXCEPT !.visited = @ \cup {v}], "visit_value", n, v)
       IN  visit_values(n, Tail(pvals), s1)

\* a traversal that reports a bundle as one value: C11 tells it from
\* visit_outputs
visit_outputs_whole(n, outputs, st) == visit_values(n, outputs, st)

\* lines 364-372 of AppliedPTransform.visit: the outputs, one after the other
RECURSIVE visit_outputs(_, _, _)
visit_outputs(n, outputs, st) ==
  IF outputs = <<>> THEN st
  ELSE visit_outputs(n, Tail(outputs), visit_values(n, pvals_of(Head(outputs)), st))

\* a traversal that does not go to the producers of the inputs: C8 tells
\* it from visit_producers
visit_producers_none(pvals, side, st, depth) == st

\* a traversal that skips the parts of a composite: C16 tells it from
\* visit_parts
visit_parts_none(parts, st, depth) == st

RECURSIVE visit(_, _, _)
RECURSIVE visit_producers(_, _, _, _)
RECURSIVE visit_parts(_, _, _)

\* lines 329-343 of AppliedPTransform.visit: the producers of the inputs
\* (side = FALSE) or of the side inputs (side = TRUE) not yet visited
visit_producers(pvals, side, st, depth) ==
  IF Failed(st) \/ pvals = <<>> THEN st
  ELSE LET pval == Head(pvals)
           skip == \/ pval \in st.visited
                   \/ ~side /\ pvalues[pval].kind = "PBegin"
           s1 == IF skip THEN st
                 ELSE IF pvalues[pval].producer = None
                 THEN Fail(st, "AssertionError")
                 ELSE LET s2 == visit(pvalues[pval].producer, st, depth + 1)
                      IN  IF Failed(s2) THEN s2
                          ELSE IF pval \notin s2.visited
                          THEN Fail(s2, "AssertionError")
                          ELSE s2
       IN  visit_producers(Tail(pvals), side, s1, depth)

\* lines 352-353 of AppliedPTransform.visit
visit_parts(parts, st, depth) ==
  IF Failed(st) \/ parts = <<>> THEN st
  ELSE visit_parts(Tail(parts), visit(Head(parts), st, depth + 1), depth)

\* AppliedPTransform.visit, as the depth-th nested call
visit(n, st, depth) ==
  IF depth > RecursionLimit THEN Fail(st, "RecursionError")
  ELSE
    LET s1 == visit_producers(applied[n].inputs, FALSE, st, depth)
        s2 == visit_producers(applied[n].side_inputs, TRUE, s1, depth)
        s3 == IF Failed(s2) THEN s2
              ELSE IF is_composite(n)
              THEN LET s4 == visit_parts(applied[n].parts,
                                         Invoke(s2, "enter_composite_transform", n, NoValue),
                                         depth)
                   IN  IF Failed(s4) THEN s4
                       ELSE Invoke(s4, "leave_composite_transform", n, NoValue)
              ELSE Invoke(s2, "visit_transform", n, NoValue)
    IN  IF Failed(s3) THEN s3 ELSE visit_outputs(n, applied[n].outputs, s3)

\* the traversal state at the start of Pipeline.visit: visited = set()
NewTraversal == [visited |-> {}, log |-> <<>>, err |-> NoException]

\* Pipeline.visit without its checks of node, traversing from the root
\* instead: C9 tells it from PipelineVisit
PipelineVisit_unchecked(node) ==
  visit(IF node \in Range(nodes) /\ pvalues[node].producer # None
        THEN pvalues[node].producer
        ELSE root_transform,
        NewTraversal, 1)

\* Pipeline.visit(visitor, node)
PipelineVisit(node) ==
  IF node # None /\ node \notin Range(nodes)
  THEN Fail(NewTraversal, "PipelineError")
  ELSE IF node # None /\ pvalues[node].producer = None
  THEN Fail(NewTraversal, "AssertionError")
  ELSE visit(IF node = None THEN root_transform ELSE pvalues[node].producer,
             NewTraversal, 1)

\* the node arguments given to Pipeline.visit
Targets == {None, ForeignPValue} \cup DOMAIN pvalues

\* the bundles a traversal iterated: those with a tagged value in its log
iterated(log) ==
  {b \in Bundles :
     \E i \in DOMAIN log :
       log[i].cb = "visit_value" /\ log[i].value \in Range(pvalues[b].tags)}

\* a call of Pipeline.visit
Visit(node) ==
  /\ LET st == PipelineVisit(node)
     IN  /\ callbacks' = st.log
         /\ pvalues' = make_tags(iterated(st.log))
         /\ nodes' = register_tags(nodes, iterated(st.log))
         /\ IF Failed(st) THEN Raise(st.err, calls)
            ELSE Return /\ UNCHANGED calls
  /\ target' = node
  /\ UNCHANGED <<options, threads, applied, transforms_stack, applied_labels>>

(***************************************************************************)
(* The specifications.  Each draws the arguments of the operations from    *)
(* its own sets.                                                           *)
(***************************************************************************)
\* the input and side-input leaves recorded so far
RECURSIVE SumOver(_, _)
SumOver(f, S) ==
  IF S = {} THEN 0
  ELSE LET x == CHOOSE y \in S : TRUE IN f[x] + SumOver(f, S \ {x})

Leaves ==
  SumOver([n \in DOMAIN applied |->
             Len(applied[n].inputs) + Len(applied[n].side_inputs)],
          DOMAIN applied)

Outputs == SumOver([n \in DOMAIN applied |-> Len(applied[n].outputs)], DOMAIN applied)

Min(a, b) == IF a < b THEN a ELSE b

\* the values no transform consumes or returns
Unused ==
  {v \in DOMAIN pvalues :
     /\ pvalues[v].producer = None
     /\ \A n \in DOMAIN applied :
          v \notin Range(applied[n].inputs) \cup Range(applied[n].side_inputs)
                     \cup Range(applied[n].outputs)}

\* the input structures given to Pipeline.apply, flattened
Inputs == SeqsUpTo(DOMAIN pvalues, Min(MaxInputs, MaxLeaves - Leaves))

\* the side inputs of a transform applied to inputs
SideInputs(inputs) ==
  SeqsUpTo(DOMAIN pvalues, Min(1, Min(MaxInputs, MaxLeaves - Leaves) - Len(inputs)))

\* the result structures a runner's apply hook returns
Results == SeqsUpTo(DOMAIN pvalues, Min(MaxResults, MaxOutputs - Outputs))

\* the kinds of the next PValue: a PBegin is made before any PCollection
NextKinds == IF pvalues = <<>> THEN PValueKinds ELSE {"PCollection"}

\* the first label that Pipeline.apply accepts in the current context
FreshLabels ==
  LET fresh == {l \in Labels : ~already_applied(full_label_of(l))}
  IN  IF <<"A">> \in fresh THEN {<<"A">>} ELSE fresh

\* construction, with every way Pipeline.apply fails; the transforms take
\* no input, which Pipeline.apply records and never reads
Next ==
  \/ \E kind \in NextKinds : Cardinality(Unused) < MaxUnused /\ NewPValue(kind)
  \/ \E label \in Labels : ApplyDuplicateLabel(label)
  \/ \E label \in Labels : ApplyExtractError(label, BadPValueish)
  \/ \E label \in Labels : ApplyEnter(label, <<>>, <<>>)
  \/ \E label \in Labels : ApplyTypeCheckInputsError(label, <<>>, <<>>)
  \/ \E result \in Results, declared \in BOOLEAN : ApplyReturn(result, declared)
  \/ \E result \in Results, declared \in BOOLEAN :
        ApplyMissingHintError(result, declared)
  \/ ApplyTypeCheckOutputsError
  \/ HookRaise

Spec == Init /\ [][Next]_vars

\* construction, then a traversal.  A behaviour ends with its traversal:
\* every other operation sets target and callbacks as it does in a state
\* without them, so what follows a traversal is what follows its start.
NextVisit ==
  \/ \E kind \in NextKinds :
        /\ target = NoVisit
        /\ Cardinality(Unused) < MaxUnused
        /\ NewPValue(kind)
  \/ \E label \in FreshLabels, inputs \in Inputs :
        \E side_inputs \in SideInputs(inputs) :
           target = NoVisit /\ ApplyEnter(label, inputs, side_inputs)
  \/ \E result \in Results : target = NoVisit /\ ApplyReturn(result, TRUE)
  \/ target = NoVisit /\ HookRaise
  \/ \E node \in Targets : target = NoVisit /\ Visit(node)

\* a pipeline constructed without options
InitVisit == Init /\ ~options.set

SpecVisit == InitVisit /\ [][NextVisit]_vars

\* the inputs of a transform applied to registered values
TaggedInputs == SeqsUpTo(Range(nodes), Min(1, MaxLeaves - Leaves))

\* the results of a runner's apply hook: registered values and bundles
TaggedResults ==
  SeqsUpTo(Range(nodes) \cup Bundles, Min(MaxResults, MaxOutputs - Outputs))

\* construction with multi-output transforms, then a traversal
NextTagged ==
  \/ target = NoVisit /\ NewDoOutputsTuple
  \/ \E b \in Bundles : target = NoVisit /\ GetTags(b)
  \/ \E label \in FreshLabels, inputs \in TaggedInputs :
        target = NoVisit /\ ApplyEnter(label, inputs, <<>>)
  \/ \E result \in TaggedResults : target = NoVisit /\ ApplyReturn(result, TRUE)
  \/ \E node \in {None} \cup Range(nodes) : target = NoVisit /\ Visit(node)

SpecTagged == InitVisit /\ [][NextTagged]_vars

\* composites that construct their own value around primitives, then a
\* traversal
NextNested ==
  \/ target = NoVisit /\ Cardinality(Unused) < MaxUnused
       /\ NewPValue("PCollection")
  \/ \E label \in FreshLabels : target = NoVisit /\ ApplyEnter(label, <<>>, <<>>)
  \/ \E label \in FreshLabels, inputs \in SeqsUpTo(DOMAIN pvalues, 1) :
        target = NoVisit /\ ApplyPrimitive(label, inputs)
  \/ \E result \in SeqsUpTo(DOMAIN pvalues, 1) :
        target = NoVisit /\ ApplyReturn(result, TRUE)
  \/ \E node \in {None} \cup DOMAIN pvalues : target = NoVisit /\ Visit(node)

SpecNested == InitVisit /\ [][NextNested]_vars

\* construction by several threads
NextThreads ==
  \/ \E t \in Threads, label \in Labels : ThreadDuplicateLabel(t, label)
  \/ \E t \in Threads, label \in Labels : ThreadCheck(t, label)
  \/ \E t \in Threads : ThreadAddLabel(t)
  \/ \E t \in Threads : ThreadCreate(t)
  \/ \E t \in Threads : ThreadAddPart(t)
  \/ \E t \in Threads : ThreadPush(t)
  \/ \E t \in Threads : ThreadPop(t)

SpecThreads == InitVisit /\ [][NextThreads]_vars

(***************************************************************************)
(* The claims.                                                             *)
(***************************************************************************)
\* a call of Pipeline.apply for a transform labelled label
ApplyCall(label) ==
  \/ ApplyDuplicateLabel(label)
  \/ ApplyExtractError(label, BadPValueish)
  \/ \E inputs \in Inputs : \E side_inputs \in SideInputs(inputs) :
        \/ ApplyEnter(label, inputs, side_inputs)
        \/ ApplyTypeCheckInputsError(label, inputs, side_inputs)

\* the AppliedPTransform objects made by Pipeline.apply
Applications == DOMAIN applied \ {Root}

\* C1: a Pipeline.apply of a transform whose full label (the current
\* context's prefix and its own label) is in applied_labels raises
\* RuntimeError and creates nothing, whichever instance carries the label.
C1_DuplicateLabelRaises ==
  [][\A label \in Labels :
       (ApplyCall(label) /\ full_label_of(label) \in applied_labels)
         => (exc' = "RuntimeError" /\ applied' = applied)]_vars

\* C1's case: a second apply of a label was rejected in a pipeline that
\* holds the first application
C1_Witness ==
  /\ exc = "RuntimeError"
  /\ \E n \in Applications :
        /\ applied[n].parent = current_transform
        /\ \E label \in Labels : applied[n].full_label = full_label_of(label)

\* C2 as stated: no two AppliedPTransform objects of the tree carry the
\* same full label, and the full label of every one of them, the root
\* sentinel included, is in applied_labels.
C2_Original ==
  /\ \A n, m \in DOMAIN applied :
        applied[n].full_label = applied[m].full_label => n = m
  /\ \A n \in DOMAIN applied : applied[n].full_label \in applied_labels

\* C2, amended: no two AppliedPTransform objects made by Pipeline.apply
\* carry the same full label, and the full label of every one of them is
\* in applied_labels, after successful and after failed calls.
C2_UniqueFullLabels ==
  /\ \A n, m \in Applications :
        applied[n].full_label = applied[m].full_label => n = m
  /\ \A n \in Applications : applied[n].full_label \in applied_labels

\* C2's case: three applications, nested and side by side, after a failure
C2_Witness ==
  /\ Cardinality(Applications) = 3
  /\ \E n \in Applications : applied[n].parent # Root
  /\ exc # NoException

\* C5 as stated: a value or bundle that has a producer keeps it in every
\* step, and a Pipeline.apply that returns appends each value it returns
\* to the outputs of the application that returns it.
C5_Original ==
  [][/\ \A v \in DOMAIN pvalues :
          pvalues[v].producer # None => pvalues'[v].producer = pvalues[v].producer
     /\ \A result \in Results, declared \in BOOLEAN :
          ApplyReturn(result, declared)
            => applied'[Last(calls)].outputs = applied[Last(calls)].outputs \o result]_vars

\* C6: a Pipeline.apply rejected for its label leaves the parts tree, the
\* stack and the label set as they were, the first application, when it
\* made a node, being a part of the current context; the next apply there
\* with a fresh label is accepted and its node becomes the last part of
\* that context, after the first application.
C6_RejectedThenCloned ==
  /\ [](exc = "RuntimeError" /\ Cardinality(DOMAIN applied) <= MaxApplied
          => \A label \in Labels :
                full_label_of(label) \notin applied_labels
                  => ENABLED ApplyEnter(label, <<>>, <<>>))
  /\ [][/\ \A label \in Labels :
             ApplyDuplicateLabel(label)
               => /\ UNCHANGED <<applied, transforms_stack, applied_labels>>
                  /\ \A n \in Applications :
                        applied[n].full_label = full_label_of(label)
                          => n \in Range(applied[current_transform].parts)
        /\ \A label \in Labels :
             (exc = "RuntimeError" /\ ApplyEnter(label, <<>>, <<>>))
               => LET child == Cardinality(DOMAIN applied)
                  IN  /\ exc' = NoException
                      /\ applied'[current_transform].parts
                           = Append(applied[current_transform].parts, child)
                      /\ applied'[child].parent = current_transform
                      /\ applied'[child].full_label = full_label_of(label)]_vars

\* C6's case: an apply of label A was just rejected in a context whose only
\* part is the first application of A, and the apply of a clone labelled B
\* is possible there
C6_Witness ==
  /\ exc = "RuntimeError"
  /\ \E n \in Applications :
        /\ applied[current_transform].parts = <<n>>
        /\ applied[n].full_label = full_label_of(<<"A">>)
  /\ ENABLED ApplyEnter(<<"B">>, <<>>, <<>>)

\* the positions in callbacks of the callbacks named in cbs on node n
OnNode(cbs, n) ==
  {i \in DOMAIN callbacks : callbacks[i].cb \in cbs /\ callbacks[i].node = n}

\* the positions in callbacks of the visit_value callbacks on value v
OnValue(v) ==
  {i \in DOMAIN callbacks : callbacks[i].cb = "visit_value" /\ callbacks[i].value = v}

\* the callbacks that report a transform node
NodeCallbacks == {"visit_transform", "enter_composite_transform"}

\* the inputs and side inputs of node n
Consumed(n) == Range(applied[n].inputs \o applied[n].side_inputs)

\* a finished construction in which no application failed, so that every
\* produced value is among the outputs of its producer, and in which every
\* application consumed only the begin sentinel and values produced by
\* earlier applications, followed by a traversal that ended normally
InOrder ==
  /\ calls = <<>>
  /\ transforms_stack = <<Root>>
  /\ exc = NoException
  /\ \A v \in DOMAIN pvalues :
       pvalues[v].producer # None
         => v \in Range(applied[pvalues[v].producer].outputs)
  /\ \A n \in Applications : \A v \in Consumed(n) :
       IF pvalues[v].kind = "PBegin" THEN pvalues[v].producer = None
       ELSE pvalues[v].producer \in 1..(n - 1)

\* C3: in one Pipeline.visit call, full or from a value, visit_value is
\* invoked at most once per value and visit_transform or
\* enter_composite_transform at most once per AppliedPTransform, also for a
\* node that is both the producer of an input and a part of a traversed
\* composite.
C3_Original ==
  InOrder =>
    /\ \A v \in DOMAIN pvalues : Cardinality(OnValue(v)) <= 1
    /\ \A n \in DOMAIN applied : Cardinality(OnNode(NodeCallbacks, n)) <= 1

\* a visit_value callback on v precedes position i of callbacks
ReportedBefore(v, i) ==
  \E j \in 1..(i - 1) :
    callbacks[j].cb = "visit_value" /\ callbacks[j].value = v

\* a visit_transform or enter_composite_transform callback on n precedes
\* position i of callbacks
VisitedBefore(n, i) ==
  \E j \in 1..(i - 1) :
    callbacks[j].cb \in NodeCallbacks /\ callbacks[j].node = n

\* the values node n waits for: its inputs other than the begin sentinel and
\* its side inputs
Awaited(n) ==
  {v \in Range(applied[n].inputs) : pvalues[v].kind # "PBegin"}
    \cup Range(applied[n].side_inputs)

\* C4: when visit_transform(n) or enter_composite_transform(n) is invoked,
\* every input of n but the begin sentinel and every side input of n has had
\* its visit_value callback and its producer has been visited; and no value
\* is reported before the transform that produced it.
C4_Original ==
  InOrder =>
    \A i \in DOMAIN callbacks :
      /\ callbacks[i].cb \in NodeCallbacks =>
           \A v \in Awaited(callbacks[i].node) :
             ReportedBefore(v, i) /\ VisitedBefore(pvalues[v].producer, i)
      /\ callbacks[i].cb = "visit_value" =>
           VisitedBefore(pvalues[callbacks[i].value].producer, i)

\* the definition of a composite: parts, or no output of its own
PartsOrNoOwnOutput(n) ==
  \/ Len(applied[n].parts) >= 1
  \/ \A v \in Range(applied[n].outputs) : pvalues[v].producer # n

\* the application that returns is the one on top of the stack
InPlace == Last(transforms_stack) = Last(calls)

\* C7: is_composite(n) holds exactly when n has a part or no recorded
\* output of n has n as its producer; an application without parts that
\* returns one of its own inputs unchanged, and nothing else, is composite,
\* and one that produces one output distinct from all its inputs is not.
\* Both cases are taken with the returning application on top of the stack.
C7_Original ==
  /\ [](\A n \in DOMAIN applied : is_composite(n) <=> PartsOrNoOwnOutput(n))
  /\ [][\A result \in Results, child \in Applications :
          (ApplyReturn(result, TRUE) /\ InPlace /\ child = Last(calls)
             /\ applied[child].parts = <<>> /\ Len(result) = 1)
            => /\ result[1] \in Range(applied[child].inputs)
                  => is_composite(child)'
               /\ (result[1] \notin Consumed(child)
                     /\ pvalues[result[1]].producer = None)
                  => ~is_composite(child)']_vars

\* a pipeline that is a chain of primitive transforms applied at top level:
\* each produces one PCollection, which the next one consumes; the first
\* one is applied to the pipeline (the begin sentinel) or to nothing
Chain ==
  /\ calls = <<>>
  /\ transforms_stack = <<Root>>
  /\ Applications # {}
  /\ \A n \in Applications :
       /\ applied[n].parent = Root
       /\ applied[n].parts = <<>>
       /\ applied[n].side_inputs = <<>>
       /\ Len(applied[n].outputs) = 1
       /\ pvalues[applied[n].outputs[1]].producer = n
       /\ pvalues[applied[n].outputs[1]].kind = "PCollection"
       /\ IF n = 1
          THEN \A v \in Range(applied[n].inputs) :
                 pvalues[v].kind = "PBegin" /\ pvalues[v].producer = None
          ELSE applied[n].inputs = applied[n - 1].outputs

\* the callbacks of a traversal of a chain from the value of its m-th transform
ChainCallbacks(m) ==
  [i \in 1..(2 * m) |->
     IF i % 2 = 1
     THEN Callback("visit_transform", (i + 1) \div 2, NoValue)
     ELSE Callback("visit_value", i \div 2, applied[i \div 2].outputs[1])]

\* C8: on a chain of primitive transforms applied at top level, a
\* Pipeline.visit from the value of one of them, the last one included,
\* invokes visit_transform and visit_value for each transform up to it, in
\* chain order, and no enter_composite_transform or
\* leave_composite_transform.
C8_ChainVisit ==
  \A m \in Applications :
    (Chain /\ target = applied[m].outputs[1])
      => /\ exc = NoException
         /\ Len(callbacks) = 2 * m
         /\ \A i \in 1..(2 * m) : callbacks[i] = ChainCallbacks(m)[i]

\* C8's case: A produced V1, B consumed V1 and produced V2, and the
\* traversal started from V2
C8_Witness ==
  /\ Chain
  /\ Cardinality(Applications) = 2
  /\ applied[1].inputs = <<>>
  /\ target = applied[2].outputs[1]
  /\ Len(callbacks) = 4

\* C9: Pipeline.visit(visitor, node) raises PipelineError when node is not
\* in the pipeline's registry of values and AssertionError when node is
\* registered and has no producer; neither call invokes a callback.
C9_VisitErrors ==
  /\ (target \notin {NoVisit, None} /\ target \notin Range(nodes))
       => (exc = "PipelineError" /\ callbacks = <<>>)
  /\ (target \in Range(nodes) /\ pvalues[target].producer = None)
       => (exc = "AssertionError" /\ callbacks = <<>>)

\* C9's case: a traversal asked from a registered value without producer,
\* in a pipeline that holds applications
C9_Witness ==
  /\ target \in Range(nodes)
  /\ pvalues[target].producer = None
  /\ Applications # {}
  /\ exc = "AssertionError"

\* C10: every visit_value(v, n) callback of a traversal passes as n the
\* recorded producer of v.
C10_Original ==
  InOrder =>
    \A i \in DOMAIN callbacks :
      callbacks[i].cb = "visit_value" =>
        callbacks[i].node = pvalues[callbacks[i].value].producer

\* a primitive applied at top level whose one recorded output is bundle b
TopLevelBundle(n, b) ==
  /\ applied[n].parent = Root
  /\ applied[n].parts = <<>>
  /\ applied[n].outputs = <<b>>
  /\ pvalues[b].producer = n

RECURSIVE Predecessors(_)
Predecessors(ns) ==
  LET more == ns \cup UNION {{pvalues[v].producer : v \in Consumed(n)} \ {None} :
                              n \in ns}
  IN IF more = ns THEN ns ELSE Predecessors(more)

\* C12: a traversal from a value v invokes visit_transform or
\* enter_composite_transform only for nodes reachable from v's producer
\* through the producers of inputs and side inputs; a sibling, a consumer of
\* v or a part that does not feed v gets no callback.
C12_Original ==
  (InOrder /\ target \in DOMAIN pvalues)
    => \A i \in DOMAIN callbacks :
         callbacks[i].cb \in NodeCallbacks
           => callbacks[i].node \in Predecessors({pvalues[target].producer})

\* C13 as stated: the missing-output-type-hint error is raised only for an
\* application without parts.
C13_Original ==
  [][\A result \in Results, declared \in BOOLEAN, child \in Applications :
       (calls # <<>> /\ child = Last(calls)
          /\ ApplyMissingHintError(result, declared))
         => applied[child].parts = <<>>]_vars

\* C13: an apply that has recorded its results fails with the
\* missing-output-type-hint error exactly when the options are given, the
\* strictness is ALL_REQUIRED and the transform declares no output types,
\* whether the application has parts or not; otherwise it returns.
C13_MissingHint ==
  [][\A result \in Results, declared \in BOOLEAN :
       (ApplyReturn(result, declared) \/ ApplyMissingHintError(result, declared))
         => (exc' = "TypeCheckError"
               <=> /\ options.set
                   /\ options.type_check_strictness = "ALL_REQUIRED"
                   /\ ~declared)]_vars

\* C13's case: the error was raised for an application with a part, after
\* its own result was recorded and before the stack was popped
C13_Witness ==
  /\ exc = "TypeCheckError"
  /\ options.type_check_strictness = "ALL_REQUIRED"
  /\ LET n == Last(transforms_stack)
     IN  /\ applied[n].parts # <<>>
         /\ \E v \in Range(applied[n].outputs) : pvalues[v].producer = n

\* the stack as the open apply of node n found it: what lies below n
Found(n) ==
  LET i == CHOOSE j \in DOMAIN transforms_stack : transforms_stack[j] = n
  IN  SubSeq(transforms_stack, 1, i - 1)

\* C14: an apply that returns normally leaves transforms_stack as it found
\* it, and an apply made while the apply of node n is open creates a node
\* whose parent is n, appended as the last of n's parts.
C14_Original ==
  [][\A child \in Applications :
       (calls # <<>> /\ child = Last(calls))
         => /\ \A result \in Results, declared \in BOOLEAN :
                 ApplyReturn(result, declared)
                   => transforms_stack' = Found(child)
            /\ \A label \in Labels :
                 ApplyEnter(label, <<>>, <<>>)
                   => /\ applied'[Last(calls')].parent = child
                      /\ applied'[child].parts
                           = Append(applied[child].parts, Last(calls'))]_vars

\* the exceptions of an apply that fails after its node was created
LateFailures == {"TypeCheckError", "HookError"}

\* C15 as stated: every node whose apply failed after it was created is on
\* top of the stack.
C15_Original ==
  [][exc' \in LateFailures
       => \A n \in (Range(calls) \ Range(calls'))
                     \cup (DOMAIN applied' \ DOMAIN applied) :
            n = Last(transforms_stack')]_vars

\* C15: when an apply fails after its node was created, alone or together
\* with the enclosing applies the exception leaves, nothing is rolled back:
\* each of their nodes stays among the parts of its parent and on the
\* stack, with every node at or above it, and its full label stays in
\* applied_labels; the apply that comes next is attached under the node on
\* top of the stack, a node whose apply is no longer open.
C15_NothingRolledBack ==
  /\ [][exc' \in LateFailures
          => /\ \A n \in (Range(calls) \ Range(calls'))
                           \cup (DOMAIN applied' \ DOMAIN applied) :
                  /\ n \in Range(applied'[applied'[n].parent].parts)
                  /\ n \in Range(transforms_stack')
                  /\ applied'[n].full_label \in applied_labels'
             /\ SubSeq(transforms_stack', 1, Len(transforms_stack))
                  = transforms_stack
             /\ applied_labels \subseteq applied_labels'
             /\ \A n \in DOMAIN applied :
                  /\ applied'[n].parent = applied[n].parent
                  /\ SubSeq(applied'[n].parts, 1, Len(applied[n].parts))
                       = applied[n].parts]_vars
  /\ [][\A label \in Labels :
          (exc \in LateFailures /\ ApplyEnter(label, <<>>, <<>>))
            => /\ applied'[Last(calls')].parent = Last(transforms_stack)
               /\ Last(transforms_stack) \notin Range(calls)
               /\ Last(transforms_stack) # Root]_vars

\* C15's case: an apply has been attached under a node whose own apply
\* failed and is no longer open
C15_Witness ==
  /\ exc = NoException
  /\ calls # <<>>
  /\ Last(calls) = Last(transforms_stack)
  /\ applied[Last(calls)].parent \in Applications \ Range(calls)
  /\ applied[Last(calls)].parent \in Range(transforms_stack)

\* the composites entered and not yet left after the first k callbacks,
\* outermost first; <<None>> once a leave did not match the last enter
RECURSIVE Open(_)
Open(k) ==
  IF k = 0 THEN <<>>
  ELSE LET s == Open(k - 1)
           c == callbacks[k]
       IN  IF s = <<None>> THEN s
           ELSE IF c.cb = "enter_composite_transform" THEN Append(s, c.node)
           ELSE IF c.cb = "leave_composite_transform"
           THEN IF s # <<>> /\ Last(s) = c.node THEN Front(s) ELSE <<None>>
           ELSE s

\* the position of the leave that matches the enter at position i
Matching(i) ==
  CHOOSE j \in i..Len(callbacks) :
    /\ Open(j) = Open(i - 1)
    /\ \A k \in i..(j - 1) : Open(k) # Open(i - 1)

\* the nodes reported directly inside the composite entered at position i,
\* in the order of their callbacks
RECURSIVE Inside(_, _)
Inside(i, k) ==
  IF k <= i THEN <<>>
  ELSE IF callbacks[k].cb \in NodeCallbacks /\ Open(k - 1) = Open(i)
       THEN Append(Inside(i, k - 1), callbacks[k].node)
       ELSE Inside(i, k - 1)

\* a traversal ended normally on a pipeline whose transforms consumed the
\* begin sentinel and values produced by transforms applied before them
Traversed ==
  /\ target # NoVisit
  /\ exc = NoException
  /\ callbacks # <<>>
  /\ \A n \in Applications : \A v \in Consumed(n) :
       IF pvalues[v].kind = "PBegin" THEN pvalues[v].producer = None
       ELSE pvalues[v].producer \in 1..(n - 1)

\* the enter callbacks made while another composite was entered and not left
Nested ==
  {i \in DOMAIN callbacks :
     callbacks[i].cb = "enter_composite_transform" /\ Open(i - 1) # <<>>}

Active == {t \in Threads : threads[t] # Ready(<<>>, threads[t].made)}

\* at most one thread is inside Pipeline.apply
OneAtATime == Cardinality(Active) <= 1

\* two calls have passed the duplicate-label test with one full label
BothPassed ==
  \E t, u \in Threads :
    /\ t # u
    /\ threads[t].pc \in {"checked", "added", "created", "attached"}
    /\ threads[u].pc \in {"checked", "added", "created", "attached"}
    /\ threads[t].full_label = threads[u].full_label

\* two nodes made by Pipeline.apply carry one full label
SameFullLabel ==
  \E n, m \in Applications : n # m /\ applied[n].full_label = applied[m].full_label

\* a node made by one thread has a node made by another thread as parent
AttachedUnderOther ==
  \E t, u \in Threads :
    /\ t # u
    /\ \E n \in threads[t].made : applied[n].parent \in threads[u].made

\* the node of an open call of a thread is no longer on the stack
FrameRemoved ==
  \E t \in Threads : \E n \in Range(threads[t].open) :
    n \notin Range(transforms_stack)

\* C17: as long as at most one thread at a time is inside Pipeline.apply,
\* no two calls pass the duplicate-label test with one full label, no two
\* nodes get one full label, no node is attached under a node of another
\* thread, no pop removes the node of another call, and the full label of
\* every node is that of its parent and its own label.
C17_OneAtATime ==
  []OneAtATime
    => [](/\ ~BothPassed
          /\ ~SameFullLabel
          /\ ~AttachedUnderOther
          /\ ~FrameRemoved
          /\ \A n \in Applications :
               applied[n].full_label
                 = format_full_label(applied[applied[n].parent], applied[n].transform))

\* C17's case: two threads interleaved their calls, both passed the test
\* with one full label, the node of one was attached under the open node of
\* the other, and the pop of one removed the node of the other
C17_Witness ==
  /\ ~OneAtATime
  /\ SameFullLabel
  /\ AttachedUnderOther
  /\ FrameRemoved

\* C18: a traversal, full or from a value, of a pipeline built by apply
\* calls that all returned never enters a composite again while it is
\* entered and not left, and does not end in unbounded recursion.
C18_Original ==
  (target # NoVisit /\ calls = <<>>)
    => /\ exc # "RecursionError"
       /\ \A i \in Nested : callbacks[i].node \notin Range(Open(i - 1))

\* C19: transforms_stack is never empty and its bottom is the root, the
\* only node with no parent and with the empty full label; every other
\* element of the stack has the element below it as parent and is one of
\* that parent's parts; every node but the root has a parent and occurs
\* exactly once in the parts of that parent.
C19_StackAndTree ==
  /\ transforms_stack # <<>>
  /\ transforms_stack[1] = Root
  /\ \A n \in DOMAIN applied :
       (applied[n].parent = None \/ applied[n].full_label = <<>>) <=> n = Root
  /\ \A i \in 2..Len(transforms_stack) :
       /\ applied[transforms_stack[i]].parent = transforms_stack[i - 1]
       /\ transforms_stack[i] \in Range(applied[transforms_stack[i - 1]].parts)
  /\ \A n \in Applications :
       /\ applied[n].parent \in DOMAIN applied
       /\ Cardinality({i \in DOMAIN applied[applied[n].parent].parts :
                         applied[applied[n].parent].parts[i] = n}) = 1

\* C19's case: the one open call is on top of a stack that still holds the
\* nodes of two calls that are no longer open
C19_Witness ==
  /\ Len(transforms_stack) >= 4
  /\ calls = <<Last(transforms_stack)>>

\* C20: a Pipeline.apply that raises NotImplementedError creates no node
\* and leaves the parts and the stack as they were, but its full label is
\* in applied_labels although no node carries it; an apply of a label
\* whose full label is such a label, made right after the failure, raises
\* RuntimeError and creates nothing.
C20_LabelKept ==
  /\ [][\A label \in Labels :
          ApplyExtractError(label, BadPValueish)
            => /\ applied' = applied
               /\ transforms_stack' = transforms_stack
               /\ full_label_of(label) \in applied_labels'
               /\ full_label_of(label) \in Orphans']_vars
  /\ [][\A label \in Labels :
          (/\ exc = "NotImplementedError"
           /\ full_label_of(label) \in Orphans
           /\ ApplyCall(label))
            => /\ exc' = "RuntimeError"
               /\ applied' = applied]_vars

\* C20's case: the retry was rejected, in a context where no node carries
\* an applied label
C20_Witness ==
  /\ exc = "RuntimeError"
  /\ Orphans # {}
  /\ \A label \in Labels :
       already_applied(full_label_of(label)) => full_label_of(label) \in Orphans

\* the nodes with no parts and no recorded outputs
Bare == {n \in DOMAIN applied : applied[n].parts = <<>> /\ applied[n].outputs = <<>>}

\* C21: a node with no parts and no recorded outputs, the root of an empty
\* pipeline included, is composite; a traversal never invokes
\* visit_transform for it, each enter_composite_transform for it is
\* followed at once by its leave_composite_transform, and a traversal of
\* the whole pipeline that ends normally enters it.
C21_BareIsComposite ==
  /\ \A n \in Bare : is_composite(n)
  /\ target # NoVisit
       => \A n \in Bare :
            /\ OnNode({"visit_transform"}, n) = {}
            /\ \A i \in OnNode({"enter_composite_transform"}, n) :
                 /\ i + 1 \in DOMAIN callbacks
                 /\ callbacks[i + 1] = Callback("leave_composite_transform", n, NoValue)
            /\ (target = None /\ exc = NoException)
                 => OnNode({"enter_composite_transform"}, n) # {}

\* C21's case: a traversal entered and left an application that has no
\* parts and returned no value
C21_Witness ==
  /\ target # NoVisit
  /\ exc = NoException
  /\ \E n \in Bare \cap Applications :
       /\ calls = <<>>
       /\ OnNode({"enter_composite_transform"}, n) # {}
       /\ OnNode({"leave_composite_transform"}, n) # {}

\* the values and bundles recorded among the outputs of some node
Recorded == UNION {Range(applied[n].outputs) : n \in DOMAIN applied}

\* C22: every recorded output has a producer; the results of a
\* Pipeline.apply that returns are among the outputs of the node that call
\* created; and a traversal from a recorded value finds its producer set.
C22_Original ==
  /\ [](\A v \in Recorded : pvalues[v].producer # None)
  /\ [][\A result \in Results, child \in Applications :
          (calls # <<>> /\ child = Last(calls) /\ ApplyReturn(result, TRUE))
            => Range(result) \subseteq Range(applied'[child].outputs)]_vars
  /\ [](target \in Recorded => pvalues[target].producer # None)

====
